---- MODULE Spec2Model ----
(***************************************************************************)
(* Order / cylinder lifecycle engine of the oxygen platform.               *)
(*                                                                         *)
(* The store is the relational database behind the SQLAlchemy session:     *)
(* the tables orders, cylinders, order_cylinders, order_logs and           *)
(* cylinder_logs.  The cache is the Redis side-car.  Every handler of the  *)
(* order and cylinder routers is one action; Spec is the order engine      *)
(* with the cylinder routes that feed it, and SpecConc splits accept_order *)
(* at its database statements so that two requests can interleave as they  *)
(* do between two server workers.                                          *)
(***************************************************************************)
EXTENDS Integers, Sequences, FiniteSets, TLC

VARIABLES
    cylinders,      \* table cylinders: id -> row
    lastCylId,      \* last id handed out by the cylinders primary key
    orders,         \* table orders: id -> row
    orderCyl,       \* association table order_cylinders: set of <<order, cylinder>>
    orderLogs,      \* table order_logs, in insertion order
    cylLogs,        \* table cylinder_logs, in insertion order
    cache,          \* Redis: key -> cached dict
    sess,           \* in-flight requests of SpecConc: slot -> session
    resp            \* the last response sent: operation and HTTP status

vars == <<cylinders, lastCylId, orders, orderCyl, orderLogs, cylLogs, cache, sess, resp>>

store == <<cylinders, lastCylId, orders, orderCyl, orderLogs, cylLogs>>

----------------------------------------------------------------------------
(* Bounds *)

MaxCylinders == 1
MaxOrders    == 2
MaxOrderLogs == 4
MaxCylLogs   == 3

(* Users known to the identity collaborator *)
Hospitals == {"h1"}
Vendors   == {"v1", "v2"}
Users     == Hospitals \cup Vendors

(* Input domains *)
Etas         == {1}
Reasons      == {"changed mind"}
Slots        == {1, 2}

(* NULL column values *)
NoOrder  == 0
NoVendor == "null"
NoTime   == 0
NoStatus == "null"
NoNotes  == "null"
NoDetails == [kind |-> "null"]

(* enums *)
PENDING    == "pending"
ACCEPTED   == "accepted"
IN_TRANSIT == "in_transit"
DELIVERED  == "delivered"
CANCELLED  == "cancelled"
OrderStatus == {PENDING, ACCEPTED, IN_TRANSIT, DELIVERED, CANCELLED}

FILLED   == "filled"
EMPTY    == "empty"
RETURNED == "returned"
CylinderStatus == {FILLED, IN_TRANSIT, EMPTY, RETURNED}

(* statuses a caller supplies in the explored requests *)
CylStatusInputs == {FILLED, EMPTY}

HTTP_OK           == 200
HTTP_NO_CONTENT   == 204
HTTP_BAD_REQUEST  == 400
HTTP_FORBIDDEN    == 403
HTTP_NOT_FOUND    == 404
HTTP_SERVER_ERROR == 500

(* ids a request names: every id the store can hand out and, for cylinders,
   one id that is never handed out *)
OrderIds == 1..MaxOrders
CylIds   == 1..(MaxCylinders + 1)

Range(s) == {s[i] : i \in DOMAIN s}

(* lists of cylinder ids a request carries: no id, one id, two ids
   (possibly the same id twice) *)
IdLists == {<<>>} \cup {<<c>> : c \in CylIds} \cup {<<c, d>> : c \in CylIds, d \in CylIds}

----------------------------------------------------------------------------
(* Cache *)

OrderKey(o) == <<"order", o>>
CylKey(c)   == <<"cylinder", c>>

CacheSet(ch, key, val) ==
    [k \in DOMAIN ch \cup {key} |-> IF k = key THEN val ELSE ch[k]]

CacheDelete(ch, key) ==
    [k \in DOMAIN ch \ {key} |-> ch[k]]

OrderDict(o, row) ==
    [id |-> o, hospital_id |-> row.hospital_id, vendor_id |-> row.vendor_id,
     status |-> row.status, cylinders_sent |-> row.cylinders_sent,
     empty_cylinders_returned |-> row.empty_cylinders_returned]

CylinderDict(c, row) ==
    [id |-> c, serial_number |-> row.serial_number, status |-> row.status,
     vendor_id |-> row.vendor_id, is_assigned |-> row.is_assigned,
     current_order_id |-> row.current_order_id]

(* OrderService.get: the row is read from the store whether or not the
   cache holds the key; on a miss of an existing row the row is cached *)
OrderGetCache(ch, ords, o) ==
    IF OrderKey(o) \notin DOMAIN ch /\ o \in DOMAIN ords
    THEN CacheSet(ch, OrderKey(o), OrderDict(o, ords[o]))
    ELSE ch

CylinderGetCache(ch, cyls, c) ==
    IF CylKey(c) \notin DOMAIN ch /\ c \in DOMAIN cyls
    THEN CacheSet(ch, CylKey(c), CylinderDict(c, cyls[c]))
    ELSE ch

----------------------------------------------------------------------------
(* Logs *)

(* the reading of the database clock: it never goes back, and it has moved
   on whenever an order log entry has been committed *)
Now == Len(orderLogs)

(* created_at is the server default now(), the start time of the inserting
   transaction; a handler taken in one step starts and commits at Now *)
OrderLogEntry(o, ev, old, new, by, details, notes) ==
    [order_id |-> o, event_type |-> ev, old_status |-> old, new_status |-> new,
     created_by |-> by, details |-> details, notes |-> notes, created_at |-> Now]

CylinderLogEntry(c, ev, old, new, by, o, notes) ==
    [cylinder_id |-> c, event_type |-> ev, old_status |-> old, new_status |-> new,
     created_by |-> by, order_id |-> o, notes |-> notes]

LogsOf(o) == SelectSeq(orderLogs, LAMBDA e : e.order_id = o)

IsoFormat(t) == <<"iso", t>>

Resp(op, code) == [op |-> op, code |-> code]

RespBody(op, code, body) == [op |-> op, code |-> code, body |-> body]

Idle == [pc |-> "idle"]

Init ==
    /\ cylinders = <<>>
    /\ lastCylId = 0
    /\ orders = <<>>
    /\ orderCyl = {}
    /\ orderLogs = <<>>
    /\ cylLogs = <<>>
    /\ cache = <<>>
    /\ sess = [s \in Slots |-> Idle]
    /\ resp = Resp("none", HTTP_OK)

----------------------------------------------------------------------------
(* Cylinder registry *)

CylinderRow(serial, st, v) ==
    [serial_number |-> serial, status |-> st, vendor_id |-> v,
     is_assigned |-> FALSE, current_order_id |-> NoOrder]

(* router permission check shared by update, bulk update and delete *)
CylinderForbidden(u, c) ==
    u \in Vendors /\ cylinders[c].vendor_id # u

(* serial numbers a create request carries: one not seen before, or one
   that an earlier request used *)
Serials == 1..(lastCylId + 1)

(* get_by_serial_number finds a row *)
SerialRegistered(serial) ==
    \E c \in DOMAIN cylinders : cylinders[c].serial_number = serial

CreateCylinder(u, serial, st) ==
    /\ UNCHANGED <<orders, orderCyl, orderLogs, sess>>
    /\ u \in Vendors
    /\ ~SerialRegistered(serial)
    /\ lastCylId < MaxCylinders
    /\ Len(cylLogs) < MaxCylLogs
    /\ LET c == lastCylId + 1
           row == CylinderRow(serial, st, u)
       IN /\ lastCylId' = c
          /\ cylinders' = [k \in DOMAIN cylinders \cup {c} |->
                              IF k = c THEN row ELSE cylinders[k]]
          /\ cylLogs' = Append(cylLogs,
                CylinderLogEntry(c, "created", NoStatus, st, u, NoOrder, "Cylinder created"))
          /\ cache' = CacheSet(cache, CylKey(c), CylinderDict(c, row))
    /\ resp' = Resp("create_cylinder", HTTP_OK)


(* CylinderUpdate bodies explored: the fields a caller has set
   (model_dump(exclude_unset=True)) *)
AssignmentUpdates ==
    {[is_assigned |-> b] : b \in BOOLEAN}
    \cup {[current_order_id |-> o] : o \in DOMAIN orders \cup {NoOrder}}

CylinderUpdates ==
    {[status |-> st] : st \in CylStatusInputs}
    \cup AssignmentUpdates
    \cup {[is_assigned |-> TRUE, current_order_id |-> o] : o \in DOMAIN orders}

(* the setattr loop of CylinderService.update *)
ApplyUpdate(row, upd) ==
    [f \in DOMAIN row |-> IF f \in DOMAIN upd THEN upd[f] ELSE row[f]]

(* current_order_id is a foreign key to orders.id: the store refuses the
   flush of a row that names an order that does not exist *)
NoSuchOrder(upd) ==
    /\ "current_order_id" \in DOMAIN upd
    /\ upd.current_order_id # NoOrder
    /\ upd.current_order_id \notin DOMAIN orders

UpdateCylinder(u, c, upd) ==
    /\ UNCHANGED <<lastCylId, orders, orderCyl, orderLogs, sess>>
    /\ c \in DOMAIN cylinders
    /\ ~CylinderForbidden(u, c)
    /\ IF NoSuchOrder(upd)
       THEN /\ resp' = Resp("update_cylinder", HTTP_SERVER_ERROR)
            /\ UNCHANGED <<cylinders, cylLogs, cache>>
       ELSE LET old == cylinders[c]
                new == ApplyUpdate(old, upd)
                logged == "status" \in DOMAIN upd /\ upd.status # old.status
            IN /\ logged => Len(cylLogs) < MaxCylLogs
               /\ cylinders' = [cylinders EXCEPT ![c] = new]
               /\ cylLogs' = IF logged
                             THEN Append(cylLogs,
                                    CylinderLogEntry(c, "status_changed", old.status,
                                                     upd.status, u, new.current_order_id,
                                                     NoNotes))
                             ELSE cylLogs
               /\ cache' = CacheSet(cache, CylKey(c), CylinderDict(c, new))
               /\ resp' = Resp("update_cylinder", HTTP_OK)

(* one pass of the loop body of CylinderService.update_status_bulk; st is
   [cyls, logs, ch, ret]: the rows, the log, the cache and updated_cylinders
   as the loop goes.  An id that self.get does not resolve is passed over. *)
M22_BulkStep(c, new_status, u, st) ==
    IF c \notin DOMAIN st.cyls
    THEN [st EXCEPT !.ret = <<>>]
    ELSE LET row == [st.cyls[c] EXCEPT !.status = new_status]
         IN [cyls |-> [st.cyls EXCEPT ![c] = row],
             logs |-> Append(st.logs,
                        CylinderLogEntry(c, "status_changed", st.cyls[c].status,
                                         new_status, u, NoOrder, NoNotes)),
             ch   |-> CacheSet(st.ch, CylKey(c), CylinderDict(c, row)),
             ret  |-> Append(st.ret, c)]

BulkStep(c, new_status, u, st) ==
    IF c \notin DOMAIN st.cyls
    THEN st
    ELSE LET row == [st.cyls[c] EXCEPT !.status = new_status]
         IN [cyls |-> [st.cyls EXCEPT ![c] = row],
             logs |-> Append(st.logs,
                        CylinderLogEntry(c, "status_changed", st.cyls[c].status,
                                         new_status, u, NoOrder, NoNotes)),
             ch   |-> CacheSet(st.ch, CylKey(c), CylinderDict(c, row)),
             ret  |-> Append(st.ret, c)]

(* the loop of CylinderService.update_status_bulk over the id list *)
RECURSIVE BulkLoop(_, _, _, _)
BulkLoop(ids, new_status, u, st) ==
    IF ids = <<>> THEN st
    ELSE BulkLoop(Tail(ids), new_status, u, BulkStep(Head(ids), new_status, u, st))

(* the list update_status_bulk returns, as the response serialises it: the
   collected rows with the values they have when the loop has ended *)
BulkBody(r) == [i \in DOMAIN r.ret |-> CylinderDict(r.ret[i], r.cyls[r.ret[i]])]

(* the permission loop of the bulk-status-update route: the first id that is
   missing or not the caller's ends the request *)
RECURSIVE BulkRouterCode(_, _)
BulkRouterCode(u, ids) ==
    IF ids = <<>> THEN HTTP_OK
    ELSE IF Head(ids) \notin DOMAIN cylinders THEN HTTP_NOT_FOUND
    ELSE IF CylinderForbidden(u, Head(ids)) THEN HTTP_FORBIDDEN
    ELSE BulkRouterCode(u, Tail(ids))

UpdateStatusBulk(u, ids, new_status) ==
    /\ UNCHANGED <<lastCylId, orders, orderCyl, orderLogs, sess>>
    /\ BulkRouterCode(u, ids) = HTTP_OK
    /\ LET r == BulkLoop(ids, new_status, u,
                          [cyls |-> cylinders, logs |-> cylLogs, ch |-> cache, ret |-> <<>>])
       IN /\ Len(r.logs) <= MaxCylLogs
          /\ cylinders' = r.cyls
          /\ cylLogs' = r.logs
          /\ cache' = r.ch
          /\ resp' = Resp("update_status_bulk", HTTP_OK)

(* CylinderService.update_status_bulk as the registry's operation, called
   with any id list: the route above is its only caller in the repository and
   answers 404 before the call when an id does not resolve *)
ServiceUpdateStatusBulk(u, ids, new_status) ==
    /\ UNCHANGED <<lastCylId, orders, orderCyl, orderLogs, sess>>
    /\ LET r == BulkLoop(ids, new_status, u,
                          [cyls |-> cylinders, logs |-> cylLogs, ch |-> cache, ret |-> <<>>])
       IN /\ Len(r.logs) <= MaxCylLogs
          /\ cylinders' = r.cyls
          /\ cylLogs' = r.logs
          /\ cache' = r.ch
          /\ resp' = [op |-> "service_update_status_bulk", code |-> HTTP_OK,
                      cylinder_ids |-> ids, body |-> BulkBody(r)]

M37_ReferencedByLog(logs, c) == FALSE

(* the flush of db.delete(cylinder): logs has no delete cascade, so the unit
   of work sets cylinder_id of every cylinder_logs row of the cylinder to
   NULL before the DELETE; the column is NOT NULL (and a foreign key to
   cylinders.id), so the store refuses the flush when such a row exists *)
ReferencedByLog(logs, c) ==
    \E i \in DOMAIN logs : logs[i].cylinder_id = c

M16_DeleteCylinder(u, c) ==
    /\ UNCHANGED <<lastCylId, orders, orderCyl, orderLogs, sess>>
    /\ c \in DOMAIN cylinders
    /\ ~CylinderForbidden(u, c)
    /\ cylLogs' = SelectSeq(cylLogs, LAMBDA e : e.cylinder_id # c)
    /\ cache' = CacheDelete(cache, CylKey(c))
    /\ cylinders' = [k \in DOMAIN cylinders \ {c} |-> cylinders[k]]
    /\ resp' = Resp("delete_cylinder", HTTP_NO_CONTENT)

(* the delete route and CylinderService.delete: create_log commits the
   deleted entry, the cache key is dropped, and the commit of db.delete
   follows; when the store refuses it, IntegrityError leaves the handler,
   the row stays and the entry committed before stays too *)
DeleteCylinder(u, c) ==
    /\ UNCHANGED <<lastCylId, orders, orderCyl, orderLogs, sess>>
    /\ c \in DOMAIN cylinders
    /\ ~CylinderForbidden(u, c)
    /\ Len(cylLogs) < MaxCylLogs
    /\ cylLogs' = Append(cylLogs,
          CylinderLogEntry(c, "deleted", cylinders[c].status, NoStatus, u,
                           NoOrder, "Cylinder deleted"))
    /\ cache' = CacheDelete(cache, CylKey(c))
    /\ IF ReferencedByLog(cylLogs', c)
       THEN /\ UNCHANGED cylinders
            /\ resp' = Resp("delete_cylinder", HTTP_SERVER_ERROR)
       ELSE /\ cylinders' = [k \in DOMAIN cylinders \ {c} |-> cylinders[k]]
            /\ resp' = Resp("delete_cylinder", HTTP_NO_CONTENT)

----------------------------------------------------------------------------
(* Order engine *)

(* OrderCreate.quantity in the explored requests (the schema wants it > 0) *)
OrderQuantity == 1

OrderRow(h) ==
    [hospital_id |-> h, vendor_id |-> NoVendor, status |-> PENDING,
     quantity |-> OrderQuantity,
     payment_status |-> "pending", expected_delivery |-> NoTime,
     cylinders_sent |-> 0, empty_cylinders_returned |-> 0, delivered_at |-> NoTime]

CreateOrder(u) ==
    /\ UNCHANGED <<cylinders, lastCylId, orderCyl, cylLogs, sess>>
    /\ u \in Hospitals
    /\ Cardinality(DOMAIN orders) < MaxOrders
    /\ Len(orderLogs) < MaxOrderLogs
    /\ LET o == Cardinality(DOMAIN orders) + 1
           row == OrderRow(u)
       IN /\ orders' = [k \in DOMAIN orders \cup {o} |->
                           IF k = o THEN row ELSE orders[k]]
          /\ orderLogs' = Append(orderLogs,
                OrderLogEntry(o, "created", NoStatus, PENDING, u, NoDetails, "Order created"))
          /\ cache' = CacheSet(cache, OrderKey(o), OrderDict(o, row))
    /\ resp' = Resp("create_order", HTTP_OK)

(* the cylinder query of accept_order: the requested ids that are the
   vendor's, filled and unassigned *)
AvailableCylinders(cyls, ids, v) ==
    {c \in Range(ids) \cap DOMAIN cyls :
        /\ cyls[c].vendor_id = v
        /\ cyls[c].status = FILLED
        /\ cyls[c].is_assigned = FALSE}

M8_NotAcceptable(row) == row.status \notin {PENDING, CANCELLED}

(* accept_order's test of the order it loaded *)
NotAcceptable(row) == row.status # PENDING

M7_SomeUnavailable(found, ids) == found = {} /\ ids # <<>>

(* accept_order's test of the cylinders it found *)
SomeUnavailable(found, ids) == Cardinality(found) # Len(ids)

AcceptedRow(row, v, eta) ==
    [row EXCEPT !.vendor_id = v, !.status = ACCEPTED, !.expected_delivery = eta]

M9_AssignedCylinders(cyls, found, o) ==
    [c \in DOMAIN cyls |->
        IF c \in found THEN [cyls[c] EXCEPT !.is_assigned = TRUE] ELSE cyls[c]]

AssignedCylinders(cyls, found, o) ==
    [c \in DOMAIN cyls |->
        IF c \in found
        THEN [cyls[c] EXCEPT !.is_assigned = TRUE, !.current_order_id = o]
        ELSE cyls[c]]

AcceptLog(o, v, eta, ids) ==
    OrderLogEntry(o, "vendor_assigned", PENDING, ACCEPTED, v,
                  [kind |-> "accept", assigned_cylinders |-> ids,
                   expected_delivery |-> IsoFormat(eta)],
                  NoNotes)

AcceptOrder(u, o, eta, ids) ==
    /\ UNCHANGED <<lastCylId, cylLogs, sess>>
    /\ u \in Vendors
    /\ IF o \notin DOMAIN orders
       THEN /\ resp' = Resp("accept_order", HTTP_NOT_FOUND)
            /\ UNCHANGED <<cylinders, orders, orderCyl, orderLogs, cache>>
       ELSE IF NotAcceptable(orders[o])
               \/ SomeUnavailable(AvailableCylinders(cylinders, ids, u), ids)
       THEN /\ resp' = Resp("accept_order", HTTP_BAD_REQUEST)
            /\ cache' = OrderGetCache(cache, orders, o)
            /\ UNCHANGED <<cylinders, orders, orderCyl, orderLogs>>
       ELSE LET found == AvailableCylinders(cylinders, ids, u)
                row == AcceptedRow(orders[o], u, eta)
            IN /\ Len(orderLogs) < MaxOrderLogs
               /\ orders' = [orders EXCEPT ![o] = row]
               /\ cylinders' = AssignedCylinders(cylinders, found, o)
               /\ orderCyl' = orderCyl \cup {<<o, c>> : c \in found}
               /\ orderLogs' = Append(orderLogs, AcceptLog(o, u, eta, ids))
               /\ cache' = CacheSet(cache, OrderKey(o), OrderDict(o, row))
               /\ resp' = Resp("accept_order", HTTP_OK)


(* the delivery-status route serves only the vendor of the order *)
DeliveryRouteNotFound(u, o) ==
    o \notin DOMAIN orders \/ orders[o].vendor_id # u

(* requests of the engine's updateDeliveryStatus that are explored: any
   status, one value for both counters, delivered_at supplied with delivered *)
DeliveryUpdates ==
    {[status |-> st, cylinders_sent |-> 1, empty_cylinders_returned |-> 1,
      delivered_at |-> IF st = DELIVERED THEN 1 ELSE NoTime, notes |-> NoNotes] :
        st \in OrderStatus}

M30_DeliveryUpdatedRow(row, upd) ==
    [row EXCEPT !.status = upd.status,
                !.cylinders_sent = upd.cylinders_sent,
                !.empty_cylinders_returned = upd.empty_cylinders_returned,
                !.delivered_at = upd.delivered_at]

DeliveryUpdatedRow(row, upd) ==
    [row EXCEPT !.status = upd.status,
                !.cylinders_sent = upd.cylinders_sent,
                !.empty_cylinders_returned = upd.empty_cylinders_returned,
                !.delivered_at = IF upd.delivered_at # NoTime THEN upd.delivered_at ELSE @]

M39_UpdateDeliveryStatus(u, o, upd) ==
    /\ UNCHANGED <<lastCylId, orderCyl, cylLogs, sess>>
    /\ u \in Vendors
    /\ ~DeliveryRouteNotFound(u, o)
    /\ cylinders' = [c \in DOMAIN cylinders |->
                        IF upd.status = DELIVERED /\ cylinders[c].current_order_id = o
                        THEN [cylinders[c] EXCEPT !.is_assigned = FALSE,
                                                  !.current_order_id = NoOrder]
                        ELSE cylinders[c]]
    /\ LET row == DeliveryUpdatedRow(orders[o], upd)
       IN /\ Len(orderLogs) < MaxOrderLogs
          /\ orders' = [orders EXCEPT ![o] = row]
          /\ orderLogs' = Append(orderLogs,
                OrderLogEntry(o, "status_changed", orders[o].status, upd.status, u,
                              [kind |-> "delivery", cylinders_sent |-> upd.cylinders_sent,
                               empty_cylinders_returned |-> upd.empty_cylinders_returned,
                               notes |-> upd.notes],
                              NoNotes))
          /\ cache' = CacheSet(cache, OrderKey(o), OrderDict(o, row))
          /\ resp' = Resp("update_delivery_status", HTTP_OK)

UpdateDeliveryStatus(u, o, upd) ==
    /\ UNCHANGED <<cylinders, lastCylId, orderCyl, cylLogs, sess>>
    /\ u \in Vendors
    /\ ~DeliveryRouteNotFound(u, o)
    /\ LET row == DeliveryUpdatedRow(orders[o], upd)
       IN /\ Len(orderLogs) < MaxOrderLogs
          /\ orders' = [orders EXCEPT ![o] = row]
          /\ orderLogs' = Append(orderLogs,
                OrderLogEntry(o, "status_changed", orders[o].status, upd.status, u,
                              [kind |-> "delivery", cylinders_sent |-> upd.cylinders_sent,
                               empty_cylinders_returned |-> upd.empty_cylinders_returned,
                               notes |-> upd.notes],
                              NoNotes))
          /\ cache' = CacheSet(cache, OrderKey(o), OrderDict(o, row))
          /\ resp' = Resp("update_delivery_status", HTTP_OK)

(* the cancel route: only the hospital cancels a pending order; the hospital
   or the order's vendor cancels an accepted one *)
CancelForbidden(u, o) ==
    \/ orders[o].status = PENDING /\ u \notin Hospitals
    \/ orders[o].status = ACCEPTED
         /\ ~(u \in Hospitals \/ (u \in Vendors /\ orders[o].vendor_id = u))

M11_NotCancellable(row) == row.status \notin {PENDING, ACCEPTED, IN_TRANSIT}

(* cancel_order's test of the order it loaded *)
NotCancellable(row) == row.status \notin {PENDING, ACCEPTED}

(* Order.cylinders: the rows the association table links to the order *)
OrderCylinders(cyls, assoc, o) ==
    {c \in DOMAIN cyls : <<o, c>> \in assoc}

M13_ReleasedCylinders(cyls, assoc, o) ==
    [c \in DOMAIN cyls |->
        IF <<o, c>> \in assoc
        THEN [cyls[c] EXCEPT !.is_assigned = ~@, !.current_order_id = NoOrder]
        ELSE cyls[c]]

(* the unassign loop of cancel_order *)
ReleasedCylinders(cyls, assoc, o) ==
    [c \in DOMAIN cyls |->
        IF c \in OrderCylinders(cyls, assoc, o)
        THEN [cyls[c] EXCEPT !.is_assigned = FALSE, !.current_order_id = NoOrder]
        ELSE cyls[c]]

M12_CancelLog(o, old_status, u, reason) ==
    OrderLogEntry(o, "cancelled", old_status, CANCELLED, u, [reason |-> reason], NoNotes)

(* the cancelled entry cancel_order writes: the reason goes to notes *)
CancelLog(o, old_status, u, reason) ==
    OrderLogEntry(o, "cancelled", old_status, CANCELLED, u, NoDetails, reason)

CancelOrder(u, o, reason) ==
    /\ UNCHANGED <<lastCylId, orderCyl, cylLogs, sess>>
    /\ o \in DOMAIN orders
    /\ ~CancelForbidden(u, o)
    /\ IF NotCancellable(orders[o])
       THEN /\ resp' = Resp("cancel_order", HTTP_BAD_REQUEST)
            /\ cache' = OrderGetCache(cache, orders, o)
            /\ UNCHANGED <<cylinders, orders, orderLogs>>
       ELSE LET row == [orders[o] EXCEPT !.status = CANCELLED]
            IN /\ Len(orderLogs) < MaxOrderLogs
               /\ orders' = [orders EXCEPT ![o] = row]
               /\ cylinders' = ReleasedCylinders(cylinders, orderCyl, o)
               /\ orderLogs' = Append(orderLogs, CancelLog(o, orders[o].status, u, reason))
               /\ cache' = CacheSet(cache, OrderKey(o), OrderDict(o, row))
               /\ resp' = Resp("cancel_order", HTTP_OK)

(* DeliveryTrackingService.update_delivery_status: its status guard names
   OrderStatus.OUT_FOR_DELIVERY, which the enum does not define, so the
   guard raises for every order that exists and nothing is written; a
   missing order is answered 404 before the guard.  outcome is what
   NotificationService.send_delivery_update would meet (every send delivered,
   a websocket send raising, the mail send raising); the call sits after the
   guard and is never reached. *)
NotifyOutcomes == {"delivered", "websocket_closed", "mail_error"}

TrackerUpdateDeliveryStatus(u, o, outcome) ==
    /\ UNCHANGED <<store, cache, sess>>
    /\ u \in Vendors
    /\ outcome \in NotifyOutcomes
    /\ IF o \notin DOMAIN orders
       THEN resp' = Resp("tracker_update", HTTP_NOT_FOUND)
       ELSE resp' = Resp("tracker_update", HTTP_SERVER_ERROR)

----------------------------------------------------------------------------
(* Order engine with the cylinder routes that feed it *)
Next ==
    \/ \E u \in Vendors, s \in Serials, st \in CylStatusInputs : CreateCylinder(u, s, st)
    \/ \E u \in Users, c \in CylIds, upd \in AssignmentUpdates : UpdateCylinder(u, c, upd)
    \/ \E u \in Hospitals : CreateOrder(u)
    \/ \E u \in Vendors, o \in OrderIds, eta \in Etas, ids \in IdLists : AcceptOrder(u, o, eta, ids)
    \/ \E u \in Vendors, o \in OrderIds, upd \in DeliveryUpdates : UpdateDeliveryStatus(u, o, upd)
    \/ \E u \in Users, o \in OrderIds, r \in Reasons : CancelOrder(u, o, r)
    \/ \E u \in Vendors, o \in OrderIds, n \in NotifyOutcomes :
          TrackerUpdateDeliveryStatus(u, o, n)

Spec == Init /\ [][Next]_vars

(* Cylinder registry *)
NextRegistry ==
    \/ \E u \in Vendors, s \in Serials, st \in CylStatusInputs : CreateCylinder(u, s, st)
    \/ \E u \in Users, c \in CylIds, upd \in CylinderUpdates : UpdateCylinder(u, c, upd)
    \/ \E u \in Users, ids \in IdLists, st \in CylStatusInputs : UpdateStatusBulk(u, ids, st)
    \/ \E u \in Users, c \in CylIds : DeleteCylinder(u, c)
    \/ \E u \in Hospitals : CreateOrder(u)

SpecRegistry == Init /\ [][NextRegistry]_vars

(* The registry's bulk operation with the routes that create and remove the
   rows it names *)
NextBulk ==
    \/ \E u \in Vendors, s \in Serials, st \in CylStatusInputs : CreateCylinder(u, s, st)
    \/ \E u \in Users, c \in CylIds : DeleteCylinder(u, c)
    \/ \E u \in Users, ids \in IdLists, st \in CylStatusInputs : UpdateStatusBulk(u, ids, st)
    \/ \E u \in Users, ids \in IdLists, st \in CylStatusInputs :
          ServiceUpdateStatusBulk(u, ids, st)

SpecBulk == Init /\ [][NextBulk]_vars

(* The delete route among the order routes that assign and release
   cylinders *)
NextDelete ==
    \/ \E u \in Vendors, s \in Serials, st \in CylStatusInputs : CreateCylinder(u, s, st)
    \/ \E u \in Hospitals : CreateOrder(u)
    \/ \E u \in Vendors, o \in OrderIds, eta \in Etas, ids \in IdLists : AcceptOrder(u, o, eta, ids)
    \/ \E u \in Users, o \in OrderIds, r \in Reasons : CancelOrder(u, o, r)
    \/ \E u \in Users, c \in CylIds : DeleteCylinder(u, c)
    \/ \E u \in Vendors, c \in CylIds, o \in OrderIds :
          UpdateCylinder(u, c, [current_order_id |-> o])

SpecDelete == Init /\ [][NextDelete]_vars

----------------------------------------------------------------------------
(* accept_order between two workers.  Nothing in accept_order locks a row
   (no SELECT ... FOR UPDATE, no version column) and the session runs with
   autoflush off, so a request reads the order, reads the cylinders, and
   writes everything in the flush of its first commit.  Each of the three is
   one step of a session; a session keeps what it read. *)

(* the session of a request that has loaded its order *)
AcceptSession(u, o, eta, ids) ==
    [pc |-> "loaded", vendor_id |-> u, order_id |-> o, expected_delivery |-> eta,
     assigned_cylinder_ids |-> ids, cylinders |-> {}]

InFlight(s) == sess[s].pc # "idle"

(* self.get(order_id) and the status test *)
AcceptBegin(s, u, o, eta, ids) ==
    /\ UNCHANGED store
    /\ ~InFlight(s)
    /\ u \in Vendors
    /\ IF o \notin DOMAIN orders
       THEN /\ resp' = Resp("accept_order", HTTP_NOT_FOUND)
            /\ UNCHANGED <<cache, sess>>
       ELSE /\ cache' = OrderGetCache(cache, orders, o)
            /\ IF NotAcceptable(orders[o])
               THEN /\ resp' = Resp("accept_order", HTTP_BAD_REQUEST)
                    /\ UNCHANGED sess
               ELSE /\ sess' = [sess EXCEPT ![s] = AcceptSession(u, o, eta, ids)]
                    /\ UNCHANGED resp

(* the cylinder query and the length test *)
AcceptCheck(s) ==
    /\ UNCHANGED <<store, cache>>
    /\ sess[s].pc = "loaded"
    /\ LET found == AvailableCylinders(cylinders, sess[s].assigned_cylinder_ids,
                                       sess[s].vendor_id)
       IN IF SomeUnavailable(found, sess[s].assigned_cylinder_ids)
          THEN /\ resp' = Resp("accept_order", HTTP_BAD_REQUEST)
               /\ sess' = [sess EXCEPT ![s] = Idle]
          ELSE /\ sess' = [sess EXCEPT ![s] = [@ EXCEPT !.pc = "checked", !.cylinders = found]]
               /\ UNCHANGED resp

(* the flush and commit: UPDATE of the order's three columns, UPDATE of each
   cylinder read, INSERT of the association rows and of the log row.  An
   association row that exists already violates the primary key of
   order_cylinders: the transaction is rolled back and the request fails. *)
AcceptCommit(s) ==
    /\ UNCHANGED <<lastCylId, cylLogs>>
    /\ sess[s].pc = "checked"
    /\ sess' = [sess EXCEPT ![s] = Idle]
    /\ LET u == sess[s].vendor_id
           o == sess[s].order_id
           found == sess[s].cylinders
           row == AcceptedRow(orders[o], u, sess[s].expected_delivery)
       IN IF \E c \in found : <<o, c>> \in orderCyl
          THEN /\ resp' = Resp("accept_order", HTTP_SERVER_ERROR)
               /\ UNCHANGED <<cylinders, orders, orderCyl, orderLogs, cache>>
          ELSE /\ Len(orderLogs) < MaxOrderLogs
               /\ orders' = [orders EXCEPT ![o] = row]
               /\ cylinders' = AssignedCylinders(cylinders, found, o)
               /\ orderCyl' = orderCyl \cup {<<o, c>> : c \in found}
               /\ orderLogs' = Append(orderLogs,
                     AcceptLog(o, u, sess[s].expected_delivery,
                               sess[s].assigned_cylinder_ids))
               /\ cache' = CacheSet(cache, OrderKey(o), OrderDict(o, row))
               /\ resp' = Resp("accept_order", HTTP_OK)

(* OrderService.create between two workers: the order row is committed and
   refreshed first; the created entry is committed by create_log afterwards,
   and the dict cached last is the row as it was refreshed *)
CreateSession(u, o) ==
    [pc |-> "inserted", hospital_id |-> u, order_id |-> o]

CreateOrderInsert(s, u) ==
    /\ UNCHANGED <<cylinders, lastCylId, orderCyl, orderLogs, cylLogs, cache, resp>>
    /\ ~InFlight(s)
    /\ u \in Hospitals
    /\ Cardinality(DOMAIN orders) < MaxOrders
    /\ LET o == Cardinality(DOMAIN orders) + 1
       IN /\ orders' = [k \in DOMAIN orders \cup {o} |->
                           IF k = o THEN OrderRow(u) ELSE orders[k]]
          /\ sess' = [sess EXCEPT ![s] = CreateSession(u, o)]

CreateOrderLog(s) ==
    /\ UNCHANGED <<cylinders, lastCylId, orders, orderCyl, cylLogs>>
    /\ sess[s].pc = "inserted"
    /\ Len(orderLogs) < MaxOrderLogs
    /\ LET u == sess[s].hospital_id
           o == sess[s].order_id
       IN /\ orderLogs' = Append(orderLogs,
                OrderLogEntry(o, "created", NoStatus, PENDING, u, NoDetails, "Order created"))
          /\ cache' = CacheSet(cache, OrderKey(o), OrderDict(o, OrderRow(u)))
    /\ sess' = [sess EXCEPT ![s] = Idle]
    /\ resp' = Resp("create_order", HTTP_OK)

NextConc ==
    \/ \E u \in Vendors, sn \in Serials, st \in CylStatusInputs : CreateCylinder(u, sn, st)
    \/ \E s \in Slots, u \in Hospitals : CreateOrderInsert(s, u)
    \/ \E s \in Slots : CreateOrderLog(s)
    \/ \E s \in Slots, u \in Vendors, o \in OrderIds, eta \in Etas, ids \in IdLists :
          AcceptBegin(s, u, o, eta, ids)
    \/ \E s \in Slots : AcceptCheck(s)
    \/ \E s \in Slots : AcceptCommit(s)

SpecConc == Init /\ [][NextConc]_vars

----------------------------------------------------------------------------
(* CylinderService.create between two workers: the serial check, the commit
   of the row and the commit of the created entry are three steps of a
   session.  serial_number carries a unique index, so the commit of a row
   whose serial another session has registered since the check raises
   IntegrityError, which nothing catches. *)

CreateCylinderSession(u, serial, st) ==
    [pc |-> "serial_checked", vendor_id |-> u, serial_number |-> serial, status |-> st]

(* get_by_serial_number and the 400 it leads to *)
CreateCylinderCheck(s, u, serial, st) ==
    /\ UNCHANGED <<store, cache>>
    /\ ~InFlight(s)
    /\ u \in Vendors
    /\ IF SerialRegistered(serial)
       THEN /\ resp' = Resp("create_cylinder", HTTP_BAD_REQUEST)
            /\ UNCHANGED sess
       ELSE /\ lastCylId < MaxCylinders
            /\ sess' = [sess EXCEPT ![s] = CreateCylinderSession(u, serial, st)]
            /\ UNCHANGED resp

(* db.add, db.commit, db.refresh *)
CreateCylinderInsert(s) ==
    /\ UNCHANGED <<orders, orderCyl, orderLogs, cylLogs, cache>>
    /\ sess[s].pc = "serial_checked"
    /\ IF SerialRegistered(sess[s].serial_number)
       THEN /\ resp' = Resp("create_cylinder", HTTP_SERVER_ERROR)
            /\ sess' = [sess EXCEPT ![s] = Idle]
            /\ UNCHANGED <<cylinders, lastCylId>>
       ELSE LET c == lastCylId + 1
                row == CylinderRow(sess[s].serial_number, sess[s].status, sess[s].vendor_id)
            IN /\ lastCylId < MaxCylinders
               /\ lastCylId' = c
               /\ cylinders' = [k \in DOMAIN cylinders \cup {c} |->
                                   IF k = c THEN row ELSE cylinders[k]]
               /\ sess' = [sess EXCEPT ![s] = [pc |-> "row_committed", cylinder_id |-> c,
                                               vendor_id |-> sess[s].vendor_id,
                                               status |-> sess[s].status]]
               /\ UNCHANGED resp

(* create_log (its own commit) and _cache_cylinder, which caches the row as
   the session holds it (expire_on_commit is off) *)
CreateCylinderLog(s) ==
    /\ UNCHANGED <<lastCylId, orders, orderCyl, orderLogs>>
    /\ sess[s].pc = "row_committed"
    /\ Len(cylLogs) < MaxCylLogs
    /\ LET c == sess[s].cylinder_id
           row == CylinderRow(cylinders[c].serial_number, sess[s].status, sess[s].vendor_id)
       IN /\ cylLogs' = Append(cylLogs,
                CylinderLogEntry(c, "created", NoStatus, sess[s].status,
                                 sess[s].vendor_id, NoOrder, "Cylinder created"))
          /\ cache' = CacheSet(cache, CylKey(c), CylinderDict(c, row))
          /\ UNCHANGED cylinders
    /\ sess' = [sess EXCEPT ![s] = Idle]
    /\ resp' = Resp("create_cylinder", HTTP_OK)

(* serial numbers two requests can share: create requests draw from these *)
SerialInputs == 1..(MaxCylinders + 1)

NextSerial ==
    \/ \E s \in Slots, u \in Vendors, sn \in SerialInputs, st \in CylStatusInputs :
          CreateCylinderCheck(s, u, sn, st)
    \/ \E s \in Slots : CreateCylinderInsert(s)
    \/ \E s \in Slots : CreateCylinderLog(s)
    \/ \E u \in Users, c \in CylIds, upd \in {[status |-> st] : st \in CylStatusInputs} :
          UpdateCylinder(u, c, upd)

SpecSerial == Init /\ [][NextSerial]_vars

----------------------------------------------------------------------------
(* The delivery timeline and writers of one order's log that overlap.
   cancel_order in two steps of a session: the reads (the route's and the
   service's self.get with their status tests), which start the transaction,
   and the writes with their commit. *)

CancelSession(u, o, reason) ==
    [pc |-> "cancel_loaded", user_id |-> u, order_id |-> o, reason |-> reason,
     old_status |-> orders[o].status, started_at |-> Now]

CancelBegin(s, u, o, reason) ==
    /\ UNCHANGED store
    /\ ~InFlight(s)
    /\ o \in DOMAIN orders
    /\ ~CancelForbidden(u, o)
    /\ cache' = OrderGetCache(cache, orders, o)
    /\ IF NotCancellable(orders[o])
       THEN /\ resp' = Resp("cancel_order", HTTP_BAD_REQUEST)
            /\ UNCHANGED sess
       ELSE /\ sess' = [sess EXCEPT ![s] = CancelSession(u, o, reason)]
            /\ UNCHANGED resp

CancelCommit(s) ==
    /\ UNCHANGED <<lastCylId, orderCyl, cylLogs>>
    /\ sess[s].pc = "cancel_loaded"
    /\ Len(orderLogs) < MaxOrderLogs
    /\ LET o == sess[s].order_id
           row == [orders[o] EXCEPT !.status = CANCELLED]
       IN /\ orders' = [orders EXCEPT ![o] = row]
          /\ cylinders' = ReleasedCylinders(cylinders, orderCyl, o)
          /\ orderLogs' = Append(orderLogs,
                [CancelLog(o, sess[s].old_status, sess[s].user_id, sess[s].reason)
                    EXCEPT !.created_at = sess[s].started_at])
          /\ cache' = CacheSet(cache, OrderKey(o), OrderDict(o, row))
    /\ sess' = [sess EXCEPT ![s] = Idle]
    /\ resp' = Resp("cancel_order", HTTP_OK)

RowOrders(n) ==
    {p \in [1..n -> 1..n] : \A i \in 1..n, j \in 1..n : p[i] = p[j] => i = j}

(* _create_timeline_event *)
TimelineEvent(log) ==
    [timestamp |-> log.created_at, event_type |-> log.event_type,
     status |-> log.new_status,
     description |-> IF log.notes = NoNotes THEN "" ELSE log.notes]

M24_OrderByCreatedAt(logs) ==
    {[i \in 1..Len(logs) |-> i]}

(* ORDER BY created_at ASC: the orders in which the store may hand out the
   rows; rows with equal created_at come in any order *)
OrderByCreatedAt(logs) ==
    {p \in RowOrders(Len(logs)) :
        \A i \in 1..Len(logs), j \in 1..Len(logs) :
           i < j => logs[p[i]].created_at <= logs[p[j]].created_at}

(* the driver_info a delivery update carries in the explored requests, and
   the value of driver_name / driver_phone when no driver is found *)
DriverInfo == [name |-> "driver", phone |-> "555"]
NoDriver   == [name |-> "null", phone |-> "null"]

(* log.details and "driver" in log.details *)
HasDriver(log) == "driver" \in DOMAIN log.details

(* the scan of reversed(logs) for the latest entry that carries a driver *)
RECURSIVE LatestDriver(_)
LatestDriver(logs) ==
    IF logs = <<>> THEN NoDriver
    ELSE IF HasDriver(logs[Len(logs)]) THEN logs[Len(logs)].details.driver
    ELSE LatestDriver(SubSeq(logs, 1, Len(logs) - 1))

(* the rows of the log query in the order p the store hands them out *)
Ordered(logs, p) == [i \in 1..Len(logs) |-> logs[p[i]]]

(* the drivers a timeline of these entries may report *)
TimelineDrivers(logs) ==
    {LatestDriver(Ordered(logs, p)) : p \in OrderByCreatedAt(logs)}

GetDeliveryTimeline(o) ==
    /\ UNCHANGED <<store, cache, sess>>
    /\ IF o \notin DOMAIN orders
       THEN resp' = Resp("get_delivery_timeline", HTTP_NOT_FOUND)
       ELSE \E p \in OrderByCreatedAt(LogsOf(o)) :
               resp' = RespBody("get_delivery_timeline", HTTP_OK,
                          [order_id |-> o, current_status |-> orders[o].status,
                           events |-> [i \in 1..Len(LogsOf(o)) |->
                                          TimelineEvent(Ordered(LogsOf(o), p)[i])],
                           driver |-> LatestDriver(Ordered(LogsOf(o), p))])

NextTimeline ==
    \/ \E u \in Hospitals : CreateOrder(u)
    \/ \E u \in Vendors, o \in OrderIds, eta \in Etas : AcceptOrder(u, o, eta, <<>>)
    \/ \E u \in Vendors, o \in OrderIds, upd \in DeliveryUpdates : UpdateDeliveryStatus(u, o, upd)
    \/ \E s \in Slots, u \in Users, o \in OrderIds, r \in Reasons : CancelBegin(s, u, o, r)
    \/ \E s \in Slots : CancelCommit(s)
    \/ \E o \in OrderIds : GetDeliveryTimeline(o)

SpecTimeline == Init /\ [][NextTimeline]_vars

----------------------------------------------------------------------------
(* Single-entity reads *)

(* scalar_one_or_none() of the SELECT by id: the row, or None *)
NoRow == [id |-> 0]

SelectOrder(ords, o) ==
    IF o \in DOMAIN ords THEN [id |-> o, row |-> ords[o]] ELSE NoRow

SelectCylinder(cyls, c) ==
    IF c \in DOMAIN cyls THEN CylinderDict(c, cyls[c]) ELSE NoRow

(* what OrderService.get returns: on a cache hit the cached value is only
   tested for truth and the row is selected from the store *)
OrderGet(ch, ords, o) ==
    IF OrderKey(o) \in DOMAIN ch THEN SelectOrder(ords, o) ELSE SelectOrder(ords, o)

M18_CylinderGet(ch, cyls, c) ==
    IF CylKey(c) \in DOMAIN ch THEN ch[CylKey(c)] ELSE SelectCylinder(cyls, c)

(* what CylinderService.get returns *)
CylinderGet(ch, cyls, c) ==
    IF CylKey(c) \in DOMAIN ch THEN SelectCylinder(cyls, c) ELSE SelectCylinder(cyls, c)

GetOrder(o) ==
    /\ UNCHANGED <<store, sess>>
    /\ cache' = OrderGetCache(cache, orders, o)
    /\ LET got == OrderGet(cache, orders, o)
       IN resp' = IF got = NoRow THEN Resp("get_order", HTTP_NOT_FOUND)
                  ELSE RespBody("get_order", HTTP_OK, got)

GetCylinder(c) ==
    /\ UNCHANGED <<store, sess>>
    /\ cache' = CylinderGetCache(cache, cylinders, c)
    /\ LET got == CylinderGet(cache, cylinders, c)
       IN resp' = IF got = NoRow THEN Resp("get_cylinder", HTTP_NOT_FOUND)
                  ELSE RespBody("get_cylinder", HTTP_OK, got)

(* DeliveryTrackingService.get_delivery_status.  A cache hit hands the cached
   JSON string to the DeliveryStatus constructor as keyword arguments, which raises.  On a miss the
   snapshot is built from the order and its latest entry: DeliveryStatus
   requires eta and last_updated, so an order without expected_delivery or
   without an entry raises; otherwise _cache_delivery_status passes
   model_dump(), which holds datetime values, to json.dumps, which raises.
   No path stores a snapshot or returns one. *)
DeliveryKey(o) == <<"delivery", o>>

DeliverySnapshot(o) ==
    [order_id |-> o, status |-> orders[o].status, eta |-> orders[o].expected_delivery,
     cylinders_loaded |-> Cardinality(OrderCylinders(cylinders, orderCyl, o)),
     notes |-> IF LogsOf(o) = <<>> THEN NoNotes ELSE LogsOf(o)[Len(LogsOf(o))].notes]

SnapshotInvalid(o) ==
    orders[o].expected_delivery = NoTime \/ LogsOf(o) = <<>>

JsonDumpsRaises(snapshot) == snapshot.eta # NoTime

GetDeliveryStatus(o) ==
    /\ UNCHANGED <<store, cache, sess>>
    /\ IF DeliveryKey(o) \in DOMAIN cache
       THEN resp' = Resp("get_delivery_status", HTTP_SERVER_ERROR)
       ELSE IF o \notin DOMAIN orders
       THEN resp' = Resp("get_delivery_status", HTTP_NOT_FOUND)
       ELSE IF SnapshotInvalid(o) \/ JsonDumpsRaises(DeliverySnapshot(o))
       THEN resp' = Resp("get_delivery_status", HTTP_SERVER_ERROR)
       ELSE resp' = RespBody("get_delivery_status", HTTP_OK, DeliverySnapshot(o))

(* The handlers when the Redis client raises (connection refused, timeout):
   no cache call is wrapped in try/except, so the exception ends the request
   at the handler's first cache call. *)

(* create: the order and its entry are committed before _cache_order *)
CreateOrderCacheDown(u) ==
    /\ UNCHANGED <<cylinders, lastCylId, orderCyl, cylLogs, sess, cache>>
    /\ u \in Hospitals
    /\ Cardinality(DOMAIN orders) < MaxOrders
    /\ Len(orderLogs) < MaxOrderLogs
    /\ LET o == Cardinality(DOMAIN orders) + 1
       IN /\ orders' = [k \in DOMAIN orders \cup {o} |->
                           IF k = o THEN OrderRow(u) ELSE orders[k]]
          /\ orderLogs' = Append(orderLogs,
                OrderLogEntry(o, "created", NoStatus, PENDING, u, NoDetails, "Order created"))
    /\ resp' = Resp("create_order", HTTP_SERVER_ERROR)

(* accept_order: self.get raises at cache.get, before the order is read *)
AcceptOrderCacheDown(u, o, eta, ids) ==
    /\ UNCHANGED <<store, cache, sess>>
    /\ u \in Vendors
    /\ resp' = Resp("accept_order", HTTP_SERVER_ERROR)

(* OrderService.get and CylinderService.get raise at cache.get *)
GetOrderCacheDown(o) ==
    /\ UNCHANGED <<store, cache, sess>>
    /\ resp' = Resp("get_order", HTTP_SERVER_ERROR)

GetCylinderCacheDown(c) ==
    /\ UNCHANGED <<store, cache, sess>>
    /\ resp' = Resp("get_cylinder", HTTP_SERVER_ERROR)

(* Reads, the writes that feed them, and the handlers under a cache outage *)
NextCache ==
    \/ \E u \in Vendors, sn \in Serials, st \in CylStatusInputs : CreateCylinder(u, sn, st)
    \/ \E u \in Hospitals : CreateOrder(u)
    \/ \E u \in Vendors, o \in OrderIds, eta \in Etas, ids \in IdLists : AcceptOrder(u, o, eta, ids)
    \/ \E u \in Users, o \in OrderIds, r \in Reasons : CancelOrder(u, o, r)
    \/ \E u \in Vendors, c \in CylIds : DeleteCylinder(u, c)
    \/ \E o \in OrderIds : GetOrder(o)
    \/ \E c \in CylIds : GetCylinder(c)
    \/ \E o \in OrderIds : GetDeliveryStatus(o)
    \/ \E u \in Vendors, o \in OrderIds, n \in NotifyOutcomes :
          TrackerUpdateDeliveryStatus(u, o, n)
    \/ \E u \in Hospitals : CreateOrderCacheDown(u)
    \/ \E u \in Vendors, o \in OrderIds, eta \in Etas, ids \in IdLists :
          AcceptOrderCacheDown(u, o, eta, ids)
    \/ \E o \in OrderIds : GetOrderCacheDown(o)
    \/ \E c \in CylIds : GetCylinderCacheDown(c)

SpecCache == Init /\ [][NextCache]_vars

----------------------------------------------------------------------------
(* TransactionService.update_order_payment_status, the write the payment
   webhook makes on an order *)

(* values of payment_status a caller passes: the column is a free string *)
PaymentStatuses == {"paid", "refunded"}

M29_PaymentUpdatedRow(row, status) ==
    [row EXCEPT !.payment_status = status, !.status = DELIVERED]

PaymentUpdatedRow(row, status) ==
    [row EXCEPT !.payment_status = status]

SetPaymentStatus(o, status) ==
    /\ UNCHANGED <<cylinders, lastCylId, orderCyl, orderLogs, cylLogs, cache, sess>>
    /\ IF o \notin DOMAIN orders
       THEN /\ resp' = Resp("update_order_payment_status", HTTP_NOT_FOUND)
            /\ UNCHANGED orders
       ELSE /\ orders' = [orders EXCEPT ![o] = PaymentUpdatedRow(orders[o], status)]
            /\ resp' = Resp("update_order_payment_status", HTTP_OK)

NextPayment ==
    \/ \E u \in Vendors, sn \in Serials, st \in CylStatusInputs : CreateCylinder(u, sn, st)
    \/ \E u \in Hospitals : CreateOrder(u)
    \/ \E u \in Vendors, o \in OrderIds, eta \in Etas, ids \in IdLists : AcceptOrder(u, o, eta, ids)
    \/ \E o \in OrderIds, status \in PaymentStatuses : SetPaymentStatus(o, status)

SpecPayment == Init /\ [][NextPayment]_vars

----------------------------------------------------------------------------
(* Geo-matcher: calculate_distance and find_nearby_vendors of orders/utils.
   Coordinates are whole degrees on a grid on which the haversine terms are
   exact multiples of 1/8; distances are whole kilometres. *)

MaxCandidates == 3

(* a coordinate that is None *)
NoCoord == 1000

(* float('inf') *)
Infinity == 1000000

Latitudes  == {NoCoord, -60, 0, 60}
Longitudes == {NoCoord, -90, 0, 90}
Locations  == [latitude : Latitudes, longitude : Longitudes]

(* locations of the vendors in the explored candidate lists *)
VendorLocations ==
    {[latitude |-> NoCoord, longitude |-> 90], [latitude |-> 0, longitude |-> 90],
     [latitude |-> 60, longitude |-> 90], [latitude |-> 60, longitude |-> -90],
     [latitude |-> -60, longitude |-> 90]}

MaxDistances == {6672, 13343, Infinity}

Abs(x) == IF x < 0 THEN -x ELSE x

(* 8 * sin(d/2)**2 for a difference of d degrees *)
SinSqHalf8(d) ==
    CASE Abs(d) = 0   -> 0
      [] Abs(d) = 60  -> 2
      [] Abs(d) = 90  -> 4
      [] Abs(d) = 120 -> 6
      [] Abs(d) = 180 -> 8

(* 2 * cos(lat) *)
Cos2(lat) == IF lat = 0 THEN 2 ELSE 1

(* R * 2 * atan2(sqrt(a), sqrt(1-a)) for a = a8 / 8, R = 6371, rounded *)
HaversineKm(a8) ==
    CASE a8 = 0 -> 0
      [] a8 = 1 -> 4605
      [] a8 = 2 -> 6672
      [] a8 = 3 -> 8398
      [] a8 = 4 -> 10008
      [] a8 = 5 -> 11617
      [] a8 = 6 -> 13343
      [] a8 = 7 -> 15411
      [] a8 = 8 -> 20015

(* the truth value Python gives a coordinate: None and 0.0 are false *)
Truthy(x) == x # NoCoord /\ x # 0

M26_calculate_distance(loc1, loc2) ==
    IF ~(Truthy(loc1.latitude) /\ Truthy(loc1.longitude)
         /\ Truthy(loc2.latitude) /\ Truthy(loc2.longitude))
    THEN 0
    ELSE HaversineKm(SinSqHalf8(loc2.latitude - loc1.latitude)
            + (Cos2(loc1.latitude) * Cos2(loc2.latitude)
                 * SinSqHalf8(loc2.longitude - loc1.longitude)) \div 4)

calculate_distance(loc1, loc2) ==
    IF ~(Truthy(loc1.latitude) /\ Truthy(loc1.longitude)
         /\ Truthy(loc2.latitude) /\ Truthy(loc2.longitude))
    THEN Infinity
    ELSE HaversineKm(SinSqHalf8(loc2.latitude - loc1.latitude)
            + (Cos2(loc1.latitude) * Cos2(loc2.latitude)
                 * SinSqHalf8(loc2.longitude - loc1.longitude)) \div 4)

(* sorted(..., key=distance) is stable: an element goes behind the elements
   already placed whose key is not larger *)
M25_InsertByDistance(placed, x) ==
    LET k == Cardinality({i \in DOMAIN placed : placed[i][2] < x[2]})
    IN SubSeq(placed, 1, k) \o <<x>> \o SubSeq(placed, k + 1, Len(placed))

InsertByDistance(placed, x) ==
    LET k == Cardinality({i \in DOMAIN placed : placed[i][2] <= x[2]})
    IN SubSeq(placed, 1, k) \o <<x>> \o SubSeq(placed, k + 1, Len(placed))

RECURSIVE SortedByDistance(_)
SortedByDistance(pairs) ==
    IF pairs = <<>> THEN <<>>
    ELSE InsertByDistance(SortedByDistance(SubSeq(pairs, 1, Len(pairs) - 1)),
                          pairs[Len(pairs)])

(* the loop that collects (vendor_id, distance) for the vendors in reach *)
RECURSIVE WithinDistance(_, _, _)
WithinDistance(target, vendor_locations, max_distance) ==
    IF vendor_locations = <<>> THEN <<>>
    ELSE LET vendor_id == Head(vendor_locations)[1]
             distance == calculate_distance(target, Head(vendor_locations)[2])
             rest == WithinDistance(target, Tail(vendor_locations), max_distance)
         IN IF distance <= max_distance
            THEN <<<<vendor_id, distance>>>> \o rest
            ELSE rest

find_nearby_vendors(target, vendor_locations, max_distance) ==
    SortedByDistance(WithinDistance(target, vendor_locations, max_distance))

(* candidate lists: vendor i of the list is at the i-th location *)
CandidateLists ==
    UNION {{[i \in 1..n |-> <<i, locs[i]>>] : locs \in [1..n -> VendorLocations]} :
              n \in 0..MaxCandidates}

(* a call that has not returned: the arguments, no result yet *)
GeoCalls ==
    {[op |-> "call_calculate_distance", code |-> HTTP_OK, loc1 |-> loc1, loc2 |-> loc2] :
        loc1 \in Locations, loc2 \in Locations}
    \cup {[op |-> "call_find_nearby_vendors", code |-> HTTP_OK, target |-> target,
           vendor_locations |-> cands, max_distance |-> d] :
             target \in Locations, cands \in CandidateLists, d \in MaxDistances}

InitGeo ==
    /\ cylinders = <<>>
    /\ lastCylId = 0
    /\ orders = <<>>
    /\ orderCyl = {}
    /\ orderLogs = <<>>
    /\ cylLogs = <<>>
    /\ cache = <<>>
    /\ sess = [s \in Slots |-> Idle]
    /\ resp \in GeoCalls

CalculateDistance ==
    /\ UNCHANGED <<store, cache, sess>>
    /\ resp.op = "call_calculate_distance"
    /\ resp' = [op |-> "calculate_distance", code |-> HTTP_OK, loc1 |-> resp.loc1,
                loc2 |-> resp.loc2, body |-> calculate_distance(resp.loc1, resp.loc2)]

FindNearbyVendors ==
    /\ UNCHANGED <<store, cache, sess>>
    /\ resp.op = "call_find_nearby_vendors"
    /\ resp' = [op |-> "find_nearby_vendors", code |-> HTTP_OK, target |-> resp.target,
                vendor_locations |-> resp.vendor_locations,
                max_distance |-> resp.max_distance,
                body |-> find_nearby_vendors(resp.target, resp.vendor_locations,
                                             resp.max_distance)]

NextGeo ==
    \/ CalculateDistance
    \/ FindNearbyVendors

SpecGeo == InitGeo /\ [][NextGeo]_vars

----------------------------------------------------------------------------
(* OrderService.find_nearby_vendors: the vendors that can fulfil an order *)

(* User.location of a vendor that has registered none *)
NoLocation == [address |-> "null"]

(* what the users table holds for the vendors when a call reads it; the
   table belongs to the identity collaborator *)
VendorSites ==
    {[latitude |-> 60, longitude |-> 90], [latitude |-> 60, longitude |-> -90],
     [latitude |-> NoCoord, longitude |-> 90]}
UserLocations == [Vendors -> {NoLocation} \cup VendorSites]

(* arguments of the explored calls *)
DeliveryLocations == {[latitude |-> 60, longitude |-> 90]}
Quantities == {1, 2}
NearbyMaxDistances == {50, 6672}

(* the orders in which SELECT ... WHERE role = vendor may hand out the
   vendors *)
VendorQueryOrders ==
    {vs \in [1..Cardinality(Vendors) -> Vendors] :
        \A i \in DOMAIN vs, j \in DOMAIN vs : vs[i] = vs[j] => i = j}

M34_AvailableCount(cyls, v) ==
    Cardinality({c \in DOMAIN cyls :
                    cyls[c].vendor_id = v /\ cyls[c].status = FILLED})

(* the count query: the vendor's cylinders that are filled and unassigned *)
AvailableCount(cyls, v) ==
    Cardinality({c \in DOMAIN cyls :
                    /\ cyls[c].vendor_id = v
                    /\ cyls[c].status = FILLED
                    /\ cyls[c].is_assigned = FALSE})

(* the loop that builds vendor_data *)
RECURSIVE VendorData(_, _, _, _)
VendorData(vs, locs, cyls, quantity) ==
    IF vs = <<>> THEN <<>>
    ELSE LET vendor == Head(vs)
             rest == VendorData(Tail(vs), locs, cyls, quantity)
         IN IF AvailableCount(cyls, vendor) >= quantity /\ locs[vendor] # NoLocation
            THEN <<<<vendor, locs[vendor]>>>> \o rest
            ELSE rest

OrderFindNearbyVendors(delivery_location, quantity, max_distance, locs, vs) ==
    /\ UNCHANGED <<store, cache, sess>>
    /\ resp' = [op |-> "order_find_nearby_vendors", code |-> HTTP_OK,
                delivery_location |-> delivery_location, quantity |-> quantity,
                max_distance |-> max_distance, user_locations |-> locs,
                body |-> find_nearby_vendors(delivery_location,
                            VendorData(vs, locs, cylinders, quantity), max_distance)]

NextNearby ==
    \/ \E u \in Vendors, s \in Serials, st \in CylStatusInputs : CreateCylinder(u, s, st)
    \/ \E u \in Hospitals : CreateOrder(u)
    \/ \E u \in Vendors, o \in OrderIds, eta \in Etas, ids \in IdLists : AcceptOrder(u, o, eta, ids)
    \/ \E u \in Users, o \in OrderIds, r \in Reasons : CancelOrder(u, o, r)
    \/ \E l \in DeliveryLocations, q \in Quantities, d \in NearbyMaxDistances,
          locs \in UserLocations, vs \in VendorQueryOrders :
          OrderFindNearbyVendors(l, q, d, locs, vs)

SpecNearby == Init /\ [][NextNearby]_vars

----------------------------------------------------------------------------
(* C1: when two concurrent acceptOrder calls name overlapping cylinder sets,
   exactly one succeeds: no cylinder is in the assignment set of two orders,
   and no two vendor_assigned entries carry the same cylinder id *)
C1_OneReservationWins ==
    /\ \A c \in CylIds :
          Cardinality({o \in DOMAIN orders : <<o, c>> \in orderCyl}) <= 1
    /\ \A i, j \in 1..Len(orderLogs) :
          (/\ i # j
           /\ orderLogs[i].event_type = "vendor_assigned"
           /\ orderLogs[j].event_type = "vendor_assigned")
          => Range(orderLogs[i].details.assigned_cylinders)
               \cap Range(orderLogs[j].details.assigned_cylinders) = {}

(* C2: in every reachable state each cylinder has is_assigned = TRUE exactly
   when its current_order_id is set *)
C2_AssignedIffLinked ==
    \A c \in DOMAIN cylinders :
        cylinders[c].is_assigned <=> (cylinders[c].current_order_id # NoOrder)


(* the availability accept_order asks of a requested id *)
Available(u, c) ==
    /\ c \in DOMAIN cylinders
    /\ cylinders[c].vendor_id = u
    /\ cylinders[c].status = FILLED
    /\ cylinders[c].is_assigned = FALSE

(* C3: in every reachable state a cylinder c is in order o's assignment set
   exactly when c.current_order_id = o, also after cancelOrder *)
C3_AssignmentSetMatchesLink ==
    \A o \in DOMAIN orders, c \in DOMAIN cylinders :
        (<<o, c>> \in orderCyl) <=> (cylinders[c].current_order_id = o)

(* C4: in every reachable state no cylinder is linked, through an assignment
   set or through current_order_id, to more than one order whose status is
   accepted or in_transit *)
C4_AtMostOneActiveOrder ==
    \A c \in DOMAIN cylinders :
        Cardinality({o \in DOMAIN orders :
                        /\ orders[o].status \in {ACCEPTED, IN_TRANSIT}
                        /\ (<<o, c>> \in orderCyl \/ cylinders[c].current_order_id = o)}) <= 1

(* C5: every step that changes an order's status to accepted starts from
   pending, and happens only when the order's log holds no earlier entry
   into accepted *)
C5_AcceptedOnceFromPending ==
    [][\A o \in DOMAIN orders :
        (orders[o].status # ACCEPTED /\ orders'[o].status = ACCEPTED) =>
            /\ orders[o].status = PENDING
            /\ \A i \in 1..Len(orderLogs) :
                 ~(/\ orderLogs[i].order_id = o
                   /\ orderLogs[i].new_status = ACCEPTED
                   /\ orderLogs[i].old_status # ACCEPTED)]_vars

(* C6: of two concurrent acceptOrder calls on the same pending order at most
   one succeeds: no order has two vendor_assigned entries, and the cylinders
   linked to an accepted order are the ones its single entry names *)
C6_OneAcceptancePerOrder ==
    \A o \in DOMAIN orders :
        LET acc == SelectSeq(orderLogs,
                     LAMBDA e : e.order_id = o /\ e.event_type = "vendor_assigned")
        IN /\ Len(acc) <= 1
           /\ Len(acc) = 1 =>
                /\ orders[o].vendor_id = acc[1].created_by
                /\ {c \in DOMAIN cylinders : cylinders[c].current_order_id = o}
                      = Range(acc[1].details.assigned_cylinders)

(* C7: acceptOrder fails unless every requested id is a filled, unassigned
   cylinder of the accepting vendor, and a failed acceptOrder changes no
   cylinder, no order, no assignment set and no log *)
C7_AllOrNothing ==
    [][\A u \in Vendors, o \in OrderIds, eta \in Etas, ids \in IdLists :
        AcceptOrder(u, o, eta, ids) =>
            /\ (\E c \in Range(ids) : ~Available(u, c))
                  => /\ resp'.code # HTTP_OK
                     /\ (o \in DOMAIN orders /\ orders[o].status = PENDING)
                           => resp' = Resp("accept_order", HTTP_BAD_REQUEST)
            /\ resp'.code # HTTP_OK
                  => UNCHANGED <<cylinders, orders, orderCyl, orderLogs, cylLogs>>]_vars

(* an acceptance of a pending order has just failed on its cylinders while a
   filled, unassigned cylinder is registered *)
W7_RefusedOnCylinders ==
    /\ resp = Resp("accept_order", HTTP_BAD_REQUEST)
    /\ DOMAIN orders # {}
    /\ \A o \in DOMAIN orders : orders[o].status = PENDING
    /\ \E c \in DOMAIN cylinders : Available(cylinders[c].vendor_id, c)

(* C8: acceptOrder on an order that is not pending fails, leaves the order
   log as it was and changes no cylinder *)
C8_NonPendingRefused ==
    [][\A u \in Vendors, o \in OrderIds, eta \in Etas, ids \in IdLists :
        (/\ AcceptOrder(u, o, eta, ids)
         /\ o \in DOMAIN orders
         /\ orders[o].status # PENDING) =>
            /\ resp' = Resp("accept_order", HTTP_BAD_REQUEST)
            /\ Len(orderLogs') = Len(orderLogs)
            /\ orderLogs' = orderLogs
            /\ cylinders' = cylinders
            /\ orders' = orders]_vars

(* an acceptance has just been refused while no order is pending and a
   filled, unassigned cylinder is registered *)
W8_RefusedNonPending ==
    /\ resp = Resp("accept_order", HTTP_BAD_REQUEST)
    /\ DOMAIN orders # {}
    /\ \A o \in DOMAIN orders : orders[o].status # PENDING
    /\ \E c \in DOMAIN cylinders :
          cylinders[c].status = FILLED /\ cylinders[c].is_assigned = FALSE

(* C9: a successful acceptOrder(order, vendor, eta, ids) leaves the order
   with that vendor, that expected delivery and status accepted, leaves every
   cylinder of ids assigned and linked to the order, and appends exactly one
   vendor_assigned log entry (pending -> accepted) whose details carry the
   ids and the ETA *)
C9_AcceptPostcondition ==
    [][\A u \in Vendors, o \in OrderIds, eta \in Etas, ids \in IdLists :
        (AcceptOrder(u, o, eta, ids) /\ resp' = Resp("accept_order", HTTP_OK)) =>
            /\ orders'[o].vendor_id = u
            /\ orders'[o].expected_delivery = eta
            /\ orders'[o].status = ACCEPTED
            /\ \A c \in Range(ids) :
                 /\ c \in DOMAIN cylinders'
                 /\ cylinders'[c].is_assigned = TRUE
                 /\ cylinders'[c].current_order_id = o
            /\ Len(orderLogs') = Len(orderLogs) + 1
            /\ SubSeq(orderLogs', 1, Len(orderLogs)) = orderLogs
            /\ LET e == orderLogs'[Len(orderLogs')]
               IN /\ e.order_id = o
                  /\ e.event_type = "vendor_assigned"
                  /\ e.old_status = PENDING
                  /\ e.new_status = ACCEPTED
                  /\ e.details.assigned_cylinders = ids
                  /\ e.details.expected_delivery = IsoFormat(eta)]_vars

(* an acceptance that assigned at least one cylinder has just succeeded *)
W9_AcceptedWithCylinders ==
    /\ resp = Resp("accept_order", HTTP_OK)
    /\ LET e == orderLogs[Len(orderLogs)]
       IN /\ e.event_type = "vendor_assigned"
          /\ e.details.assigned_cylinders # <<>>
          /\ orders[e.order_id].status = ACCEPTED
          /\ \A c \in Range(e.details.assigned_cylinders) :
                cylinders[c].current_order_id = e.order_id

(* C10: a successful cancelOrder(order) leaves every cylinder whose
   current_order_id was the order unassigned and unlinked *)
C10_CancelReleasesLinked ==
    [][\A u \in Users, o \in OrderIds, r \in Reasons :
        CancelOrder(u, o, r) =>
            \A c \in DOMAIN cylinders :
                cylinders[c].current_order_id = o =>
                    /\ cylinders'[c].is_assigned = FALSE
                    /\ cylinders'[c].current_order_id = NoOrder]_vars

(* C11: cancelOrder on an order that is in_transit, delivered or cancelled is
   refused and leaves the order, every cylinder and the order log unchanged;
   a cancelOrder that succeeds started from pending or accepted *)
C11_CancelRefusedUnlessOpen ==
    [][\A u \in Users, o \in OrderIds, r \in Reasons :
        CancelOrder(u, o, r) =>
            /\ orders[o].status \in {IN_TRANSIT, DELIVERED, CANCELLED}
                  => /\ resp' = Resp("cancel_order", HTTP_BAD_REQUEST)
                     /\ orders' = orders
                     /\ cylinders' = cylinders
                     /\ orderCyl' = orderCyl
                     /\ orderLogs' = orderLogs
            /\ resp'.code = HTTP_OK
                  => orders[o].status \in {PENDING, ACCEPTED}]_vars

(* a cancellation has just been refused while no order is pending or
   accepted and a cylinder is still assigned *)
W11_CancelRefused ==
    /\ resp = Resp("cancel_order", HTTP_BAD_REQUEST)
    /\ DOMAIN orders # {}
    /\ \A o \in DOMAIN orders : orders[o].status \in {IN_TRANSIT, DELIVERED, CANCELLED}
    /\ \E c \in DOMAIN cylinders : cylinders[c].is_assigned

(* C12: a successful cancelOrder(order, actor, reason) sets the status to
   cancelled and appends exactly one cancelled entry whose notes are the
   reason, whose old_status is the status before and whose new_status is
   cancelled *)
C12_CancelPostcondition ==
    [][\A u \in Users, o \in OrderIds, r \in Reasons :
        (CancelOrder(u, o, r) /\ resp' = Resp("cancel_order", HTTP_OK)) =>
            /\ orders'[o].status = CANCELLED
            /\ Len(orderLogs') = Len(orderLogs) + 1
            /\ SubSeq(orderLogs', 1, Len(orderLogs)) = orderLogs
            /\ LET e == orderLogs'[Len(orderLogs')]
               IN /\ e.order_id = o
                  /\ e.event_type = "cancelled"
                  /\ e.notes = r
                  /\ e.old_status = orders[o].status
                  /\ e.new_status = CANCELLED
                  /\ e.created_by = u]_vars

(* an accepted order has just been cancelled *)
W12_AcceptedOrderCancelled ==
    /\ resp = Resp("cancel_order", HTTP_OK)
    /\ LET e == orderLogs[Len(orderLogs)]
       IN /\ e.event_type = "cancelled"
          /\ e.old_status = ACCEPTED
          /\ e.notes \in Reasons
          /\ orders[e.order_id].status = CANCELLED

(* C13 as stated: releasing twice is the same as releasing once, releasing
   an order without cylinders changes nothing, and the cancellation of an
   order that is already cancelled raises no error *)
C13_ReleaseIdempotentOnRetry ==
    [][\A u \in Users, o \in OrderIds, r \in Reasons :
        CancelOrder(u, o, r) =>
            /\ resp'.code = HTTP_OK
                  => ReleasedCylinders(cylinders', orderCyl', o) = cylinders'
            /\ (resp'.code = HTTP_OK /\ OrderCylinders(cylinders, orderCyl, o) = {})
                  => cylinders' = cylinders
            /\ orders[o].status = CANCELLED
                  => (resp'.code = HTTP_OK /\ cylinders' = cylinders)]_vars

(* C13 amended: releasing twice is the same as releasing once, releasing an
   order without cylinders changes nothing and raises no error, and the
   cancellation of an order that is already cancelled is refused and changes
   nothing *)
C13_ReleaseIdempotent ==
    [][\A u \in Users, o \in OrderIds, r \in Reasons :
        CancelOrder(u, o, r) =>
            /\ resp'.code = HTTP_OK
                  => ReleasedCylinders(cylinders', orderCyl', o) = cylinders'
            /\ (orders[o].status \in {PENDING, ACCEPTED}
                  /\ OrderCylinders(cylinders, orderCyl, o) = {})
                  => (resp'.code = HTTP_OK /\ cylinders' = cylinders)
            /\ orders[o].status = CANCELLED
                  => /\ resp' = Resp("cancel_order", HTTP_BAD_REQUEST)
                     /\ UNCHANGED <<cylinders, orders, orderCyl, orderLogs>>]_vars

(* the cancellation of an order whose cylinders were released has just been
   tried again *)
W13_CancelRetried ==
    /\ resp = Resp("cancel_order", HTTP_BAD_REQUEST)
    /\ DOMAIN orders # {}
    /\ \A o \in DOMAIN orders : orders[o].status = CANCELLED
    /\ \E o \in DOMAIN orders, c \in DOMAIN cylinders :
          <<o, c>> \in orderCyl /\ ~cylinders[c].is_assigned

(* C14: once an order is delivered or cancelled no step changes its status *)
C14_TerminalStatus ==
    [][\A o \in DOMAIN orders :
        orders[o].status \in {DELIVERED, CANCELLED}
            => orders'[o].status = orders[o].status]_vars

(* C15: in every state another request can observe, each order has its
   created entry, the status of an order is the new_status of its latest
   entry, and every entry belongs to an order that exists *)
C15_RowsAndLogsAgree ==
    /\ \A o \in DOMAIN orders :
          /\ \E i \in 1..Len(orderLogs) :
                orderLogs[i].order_id = o /\ orderLogs[i].event_type = "created"
          /\ LogsOf(o) # <<>> => LogsOf(o)[Len(LogsOf(o))].new_status = orders[o].status
    /\ \A i \in 1..Len(orderLogs) : orderLogs[i].order_id \in DOMAIN orders

(* C16: the order log and the cylinder log are append-only: every step
   leaves the entries that exist where they are and adds new ones at the end *)
C16_LogsAppendOnly ==
    [][/\ Len(orderLogs') >= Len(orderLogs)
       /\ SubSeq(orderLogs', 1, Len(orderLogs)) = orderLogs
       /\ Len(cylLogs') >= Len(cylLogs)
       /\ SubSeq(cylLogs', 1, Len(cylLogs)) = cylLogs]_vars

(* a delete request has appended its deleted entry behind the created entry
   of the same cylinder, which is still in the log *)
W16_DeletedEntryAppended ==
    /\ resp.op = "delete_cylinder"
    /\ Len(cylLogs) >= 2
    /\ LET e == cylLogs[Len(cylLogs)]
       IN /\ e.event_type = "deleted"
          /\ \E i \in 1..(Len(cylLogs) - 1) :
                cylLogs[i].cylinder_id = e.cylinder_id /\ cylLogs[i].event_type = "created"

(* C17: when a successful write returns, the cache entry of every order and
   every cylinder the write modified is absent or equal to the committed row *)
C17_CacheFollowsWrite ==
    [][resp'.code \in {HTTP_OK, HTTP_NO_CONTENT} =>
        /\ \A c \in DOMAIN cylinders' :
              (c \notin DOMAIN cylinders \/ cylinders'[c] # cylinders[c])
                 => \/ CylKey(c) \notin DOMAIN cache'
                    \/ cache'[CylKey(c)] = CylinderDict(c, cylinders'[c])
        /\ \A c \in DOMAIN cylinders \ DOMAIN cylinders' :
              CylKey(c) \notin DOMAIN cache'
        /\ \A o \in DOMAIN orders' :
              (o \notin DOMAIN orders \/ orders'[o] # orders[o])
                 => \/ OrderKey(o) \notin DOMAIN cache'
                    \/ cache'[OrderKey(o)] = OrderDict(o, orders'[o])]_vars

(* C18: a single-entity read is never stale: get(id) for a cylinder or an
   order returns the store's current row, or nothing when no such row exists
   (never created, or deleted), whether the cache holds an entry for the id,
   an outdated entry, or none. *)
C18_ReadReturnsStoreRow ==
    [][ /\ \A c \in CylIds : GetCylinder(c) =>
              IF c \in DOMAIN cylinders
              THEN resp' = RespBody("get_cylinder", HTTP_OK, CylinderDict(c, cylinders[c]))
              ELSE resp' = Resp("get_cylinder", HTTP_NOT_FOUND)
        /\ \A o \in OrderIds : GetOrder(o) =>
              IF o \in DOMAIN orders
              THEN resp' = RespBody("get_order", HTTP_OK, [id |-> o, row |-> orders[o]])
              ELSE resp' = Resp("get_order", HTTP_NOT_FOUND) ]_vars

(* a cylinder read answered with the current row while the cache holds an
   outdated entry for it *)
W18_ReadPastOutdatedEntry ==
    /\ resp.op = "get_cylinder"
    /\ resp.code = HTTP_OK
    /\ \E c \in DOMAIN cylinders :
          /\ resp.body = CylinderDict(c, cylinders[c])
          /\ CylKey(c) \in DOMAIN cache
          /\ cache[CylKey(c)] # CylinderDict(c, cylinders[c])

(* C19: a delivery-status read issued after acceptOrder or cancelOrder on the
   order returns the status, ETA and load of the committed state. *)
C19_DeliveryStatusCurrent ==
    [][ \A o \in OrderIds :
           ( /\ GetDeliveryStatus(o)
             /\ o \in DOMAIN orders
             /\ orders[o].status \in {ACCEPTED, CANCELLED} )
           => resp' = RespBody("get_delivery_status", HTTP_OK, DeliverySnapshot(o)) ]_vars

(* C20: a cache transport failure never fails a request: the operation
   completes with the result it has when the cache is available. *)
C20_CacheFailureTolerated ==
    [][ /\ \A u \in Hospitals : CreateOrderCacheDown(u) =>
              resp' = Resp("create_order", HTTP_OK)
        /\ \A o \in OrderIds : GetOrderCacheDown(o) =>
              resp' = IF o \in DOMAIN orders
                      THEN RespBody("get_order", HTTP_OK, SelectOrder(orders, o))
                      ELSE Resp("get_order", HTTP_NOT_FOUND)
        /\ \A c \in CylIds : GetCylinderCacheDown(c) =>
              resp' = IF c \in DOMAIN cylinders
                      THEN RespBody("get_cylinder", HTTP_OK, SelectCylinder(cylinders, c))
                      ELSE Resp("get_cylinder", HTTP_NOT_FOUND) ]_vars

(* C21: a notification that fails to deliver (a websocket send or the mail
   send raising) neither undoes nor blocks the transition that triggered it:
   the tracker's update on an order in the delivery phase is answered with
   success and its log entry is committed. *)
C21_NotifyFailureHarmless ==
    [][ \A u \in Vendors, o \in OrderIds, n \in NotifyOutcomes \ {"delivered"} :
           ( /\ TrackerUpdateDeliveryStatus(u, o, n)
             /\ o \in DOMAIN orders
             /\ orders[o].status \in {ACCEPTED, IN_TRANSIT} )
           => /\ resp'.code = HTTP_OK
              /\ Len(LogsOf(o)') = Len(LogsOf(o)) + 1 ]_vars

(* C28: the tracker's update applies exactly in the delivery phase: there it
   succeeds and appends one entry for the order; in any other status it fails
   and changes neither the order nor the log; a missing order is answered
   404. *)
C28_TrackerGuarded ==
    [][ \A u \in Vendors, o \in OrderIds, n \in NotifyOutcomes :
           TrackerUpdateDeliveryStatus(u, o, n) =>
              IF o \notin DOMAIN orders
              THEN resp' = Resp("tracker_update", HTTP_NOT_FOUND) /\ UNCHANGED store
              ELSE IF orders[o].status \in {ACCEPTED, IN_TRANSIT}
              THEN /\ resp'.code = HTTP_OK
                   /\ Len(orderLogs') = Len(orderLogs) + 1
                   /\ orderLogs'[Len(orderLogs')].order_id = o
              ELSE /\ resp'.code \in {HTTP_BAD_REQUEST, HTTP_SERVER_ERROR}
                   /\ UNCHANGED store ]_vars

(* C22: update_status_bulk passes over ids that do not resolve: for any id
   list it answers without error, returns exactly the existing cylinders the
   list names, in list order and each with the new status, gives every one of
   them the new status, leaves the other rows as they were and leaves the
   set of existing cylinders unchanged. *)
C22_BulkSkipsUnresolved ==
    [][ resp'.op = "service_update_status_bulk" =>
        \A u \in Users, ids \in IdLists, st \in CylStatusInputs :
           ServiceUpdateStatusBulk(u, ids, st) =>
              LET found == SelectSeq(ids, LAMBDA c : c \in DOMAIN cylinders)
              IN /\ resp'.code = HTTP_OK
                 /\ DOMAIN cylinders' = DOMAIN cylinders
                 /\ resp'.body = [i \in DOMAIN found |->
                       CylinderDict(found[i], [cylinders[found[i]] EXCEPT !.status = st])]
                 /\ \A c \in DOMAIN cylinders :
                       cylinders'[c] = IF c \in Range(ids)
                                       THEN [cylinders[c] EXCEPT !.status = st]
                                       ELSE cylinders[c] ]_vars

(* a bulk call that named an existing cylinder and an id that does not
   resolve returned the existing one alone *)
W22_BulkPassedOverMissing ==
    /\ resp.op = "service_update_status_bulk"
    /\ resp.code = HTTP_OK
    /\ \E c \in Range(resp.cylinder_ids) : c \notin DOMAIN cylinders
    /\ Len(resp.body) = 1
    /\ resp.body[1].id \in Range(resp.cylinder_ids) \cap DOMAIN cylinders
    /\ resp.body[1].status = cylinders[resp.body[1].id].status
    /\ cylLogs[Len(cylLogs)].event_type = "status_changed"
    /\ cylLogs[Len(cylLogs)].old_status # cylLogs[Len(cylLogs)].new_status

(* C23: serial numbers stay unique, and a create whose serial is already
   registered, whether the serial check or the commit of the row meets the
   registered serial, is refused as a duplicate serial (400), adds no
   cylinder and writes no created entry. *)
C23_DuplicateSerialRefused ==
    [][ /\ \A c \in DOMAIN cylinders', d \in DOMAIN cylinders' :
              cylinders'[c].serial_number = cylinders'[d].serial_number => c = d
        /\ \A s \in Slots :
              (CreateCylinderInsert(s) /\ SerialRegistered(sess[s].serial_number))
              => /\ resp' = Resp("create_cylinder", HTTP_BAD_REQUEST)
                 /\ UNCHANGED <<cylinders, cylLogs>>
        /\ \A s \in Slots, u \in Vendors, sn \in SerialInputs, st \in CylStatusInputs :
              (CreateCylinderCheck(s, u, sn, st) /\ SerialRegistered(sn))
              => /\ resp' = Resp("create_cylinder", HTTP_BAD_REQUEST)
                 /\ UNCHANGED <<cylinders, cylLogs>> ]_vars

(* C24: the delivery timeline of an order holds one event per log entry of
   the order and its events are in non-decreasing timestamp order, however
   the writers of the order's log have overlapped. *)
C24_TimelineOrdered ==
    [][ resp'.op = "get_delivery_timeline" =>
        \A o \in OrderIds :
           (GetDeliveryTimeline(o) /\ o \in DOMAIN orders) =>
              LET logs == LogsOf(o)
                  events == resp'.body.events
              IN /\ resp'.code = HTTP_OK
                 /\ Len(events) = Len(logs)
                 /\ \A i \in 1..Len(events), j \in 1..Len(events) :
                       i < j => events[i].timestamp <= events[j].timestamp
                 /\ \E p \in RowOrders(Len(logs)) :
                       \A i \in 1..Len(logs) : events[i] = TimelineEvent(logs[p[i]]) ]_vars

(* a timeline was answered for an order whose entries were inserted out of
   timestamp order by overlapping writers *)
W24_TimelineOfOverlappingWriters ==
    /\ resp.op = "get_delivery_timeline"
    /\ resp.code = HTTP_OK
    /\ LET logs == LogsOf(resp.body.order_id)
       IN /\ Len(resp.body.events) = Len(logs)
          /\ \E i \in 1..Len(logs), j \in 1..Len(logs) :
                i < j /\ logs[i].created_at > logs[j].created_at

(* C25: find_nearby_vendors returns exactly the candidates whose distance to
   the target is at most max_distance, each once and with that distance, in
   ascending order of distance, candidates of equal distance in the order
   they had in the candidate list. *)
C25_RankedWithinRadius ==
    resp.op = "find_nearby_vendors" =>
       LET cands == resp.vendor_locations
           dist(i) == calculate_distance(resp.target, cands[i][2])
           kept == {i \in DOMAIN cands : dist(i) <= resp.max_distance}
           result == resp.body
       IN /\ Len(result) = Cardinality(kept)
          /\ \E p \in [DOMAIN result -> kept] :
                /\ \A k \in DOMAIN result : result[k] = <<cands[p[k]][1], dist(p[k])>>
                /\ \A k \in DOMAIN result, l \in DOMAIN result :
                      k < l => \/ dist(p[k]) < dist(p[l])
                               \/ dist(p[k]) = dist(p[l]) /\ p[k] < p[l]

(* the nearest vendor, last in the candidate list, was ranked first, ahead
   of two vendors at equal finite distance that kept their candidate order *)
W25_TieKeptInOrder ==
    /\ resp.op = "find_nearby_vendors"
    /\ Len(resp.body) = 3
    /\ resp.body[1][2] < resp.body[2][2]
    /\ resp.body[2][2] = resp.body[3][2]
    /\ resp.body[3][2] < Infinity
    /\ <<resp.body[1][1], resp.body[2][1], resp.body[3][1]>> = <<3, 1, 2>>

(* C26: a point without coordinates is unrankable: the distance to or from a
   point that lacks its latitude or its longitude is +infinity, and no such
   candidate is in the ranking for a finite max_distance. *)
C26_MissingCoordinatesUnrankable ==
    /\ resp.op = "calculate_distance" =>
          ( (\/ NoCoord \in {resp.loc1.latitude, resp.loc1.longitude}
             \/ NoCoord \in {resp.loc2.latitude, resp.loc2.longitude})
            => resp.body = Infinity )
    /\ (resp.op = "find_nearby_vendors" /\ resp.max_distance < Infinity) =>
          \A k \in DOMAIN resp.body :
             LET loc == resp.vendor_locations[resp.body[k][1]][2]
             IN NoCoord \notin {loc.latitude, loc.longitude}

(* a ranking for a finite radius over candidates one of which lacks a
   coordinate returned another candidate *)
W26_UnrankableLeftOut ==
    /\ resp.op = "find_nearby_vendors"
    /\ resp.max_distance < Infinity
    /\ resp.body # <<>>
    /\ \E i \in DOMAIN resp.vendor_locations :
          resp.vendor_locations[i][2].latitude = NoCoord

(* C27: distance is symmetric, and the distance of a point that has both a
   latitude and a longitude to itself is 0, whatever the values. *)
C27_SymmetricZeroDiagonal ==
    resp.op = "calculate_distance" =>
       /\ resp.body = calculate_distance(resp.loc2, resp.loc1)
       /\ ( /\ resp.loc1 = resp.loc2
            /\ NoCoord \notin {resp.loc1.latitude, resp.loc1.longitude} )
          => resp.body = 0

(* C29: the payment-status write is narrow: on an existing order it changes
   the order's payment_status and nothing else (not the order's status,
   vendor, counters or assignment set, no cylinder, neither log); on a
   missing order it is answered 404 and changes nothing. *)
C29_PaymentWriteNarrow ==
    [][ resp'.op = "update_order_payment_status" =>
        \A o \in OrderIds, status \in PaymentStatuses :
           SetPaymentStatus(o, status) =>
              IF o \in DOMAIN orders
              THEN /\ resp'.code = HTTP_OK
                   /\ DOMAIN orders' = DOMAIN orders
                   /\ \A k \in DOMAIN orders : \A f \in DOMAIN orders[k] :
                         orders'[k][f] = IF k = o /\ f = "payment_status"
                                         THEN status ELSE orders[k][f]
                   /\ UNCHANGED <<cylinders, orderCyl, orderLogs, cylLogs>>
              ELSE /\ resp'.code = HTTP_NOT_FOUND
                   /\ UNCHANGED store ]_vars

(* an accepted order holding a cylinder has been marked paid *)
W29_AcceptedOrderPaid ==
    /\ resp = Resp("update_order_payment_status", HTTP_OK)
    /\ \E o \in DOMAIN orders :
          /\ orders[o].payment_status = "paid"
          /\ orders[o].status = ACCEPTED
          /\ \E c \in DOMAIN cylinders : cylinders[c].current_order_id = o

(* C30: the engine's updateDeliveryStatus enforces no transition order:
   whatever the order's status and the supplied status, it succeeds, sets
   the order's status to the supplied one, overwrites both counters, sets
   delivered_at only when one is supplied, changes nothing else of the order
   and appends exactly one status_changed entry from the previous status to
   the supplied one. *)
C30_DeliveryUpdateUnordered ==
    [][ resp'.op = "update_delivery_status" =>
        \A u \in Vendors, o \in OrderIds, upd \in DeliveryUpdates :
           UpdateDeliveryStatus(u, o, upd) =>
              /\ resp'.code = HTTP_OK
              /\ orders' = [orders EXCEPT ![o] =
                    [orders[o] EXCEPT
                        !.status = upd.status,
                        !.cylinders_sent = upd.cylinders_sent,
                        !.empty_cylinders_returned = upd.empty_cylinders_returned,
                        !.delivered_at = IF upd.delivered_at = NoTime
                                         THEN orders[o].delivered_at
                                         ELSE upd.delivered_at]]
              /\ Len(orderLogs') = Len(orderLogs) + 1
              /\ SubSeq(orderLogs', 1, Len(orderLogs)) = orderLogs
              /\ LET e == orderLogs'[Len(orderLogs')]
                 IN /\ e.order_id = o
                    /\ e.event_type = "status_changed"
                    /\ e.old_status = orders[o].status
                    /\ e.new_status = upd.status ]_vars

(* a delivered order has been set back to pending by an update that
   supplied no delivered_at, and has kept the delivered_at it had *)
W30_DeliveredSetBackToPending ==
    /\ resp = Resp("update_delivery_status", HTTP_OK)
    /\ LET e == orderLogs[Len(orderLogs)]
       IN /\ e.event_type = "status_changed"
          /\ e.old_status = DELIVERED
          /\ e.new_status = PENDING
          /\ orders[e.order_id].status = PENDING
          /\ orders[e.order_id].delivered_at # NoTime

(* the status_changed entries of cylinder c in a cylinder log *)
StatusChangedCount(logs, c) ==
    Len(SelectSeq(logs, LAMBDA e : e.cylinder_id = c /\ e.event_type = "status_changed"))

(* C31: a status_changed entry is appended if and only if the cylinder's
   status actually changes: in every step of update and of the bulk update,
   each cylinder gains one status_changed entry when its status after the
   step differs from its status before, and none when it is the same. *)
C31_LoggedIffStatusChanges ==
    [][ resp'.op \in {"update_cylinder", "update_status_bulk"} =>
        \A c \in DOMAIN cylinders :
           StatusChangedCount(cylLogs', c) - StatusChangedCount(cylLogs, c)
              = IF cylinders'[c].status # cylinders[c].status THEN 1 ELSE 0 ]_vars

(* C32: delete on an existing cylinder appends one deleted entry whose
   old_status is the status the cylinder had, removes the row and succeeds,
   and leaves the earlier entries of the log where they are. *)
C32_DeleteRemovesRow ==
    [][ resp'.op = "delete_cylinder" =>
        \A u \in Users, c \in CylIds :
           DeleteCylinder(u, c) =>
              /\ c \notin DOMAIN cylinders'
              /\ resp'.code = HTTP_NO_CONTENT
              /\ Len(cylLogs') = Len(cylLogs) + 1
              /\ SubSeq(cylLogs', 1, Len(cylLogs)) = cylLogs
              /\ LET e == cylLogs'[Len(cylLogs')]
                 IN /\ e.cylinder_id = c
                    /\ e.event_type = "deleted"
                    /\ e.old_status = cylinders[c].status ]_vars

(* C33: the driver the timeline reports is the driver of the most recent
   entry that carries one: once a delivery update carrying driver info has
   been handed to the tracker for an order in the delivery phase, the reverse
   scan of the order's log finds that driver, in whatever order the store
   hands out entries of equal time. *)
C33_LatestDriverReported ==
    [][ resp'.op = "tracker_update" =>
        \A u \in Vendors, o \in OrderIds, n \in NotifyOutcomes :
           ( /\ TrackerUpdateDeliveryStatus(u, o, n)
             /\ o \in DOMAIN orders
             /\ orders[o].status \in {ACCEPTED, IN_TRANSIT} )
           => TimelineDrivers(LogsOf(o)') = {DriverInfo} ]_vars

(* C34: findNearbyVendors returns a vendor if and only if the vendor has a
   registered location, has at least the requested quantity of filled,
   unassigned cylinders in the store as accept and cancel left it, and is at
   most max_distance away; each such vendor is returned once with its
   distance, and the result is in ascending order of distance. *)
C34_NearbyVendorsQualified ==
    resp.op = "order_find_nearby_vendors" =>
       LET dist(v) == calculate_distance(resp.delivery_location, resp.user_locations[v])
           returned == {resp.body[k][1] : k \in DOMAIN resp.body}
       IN /\ \A v \in Vendors :
                v \in returned <=>
                   /\ resp.user_locations[v] # NoLocation
                   /\ Cardinality({c \in DOMAIN cylinders :
                                      /\ cylinders[c].vendor_id = v
                                      /\ cylinders[c].status = FILLED
                                      /\ ~cylinders[c].is_assigned}) >= resp.quantity
                   /\ dist(v) <= resp.max_distance
          /\ Len(resp.body) = Cardinality(returned)
          /\ \A k \in DOMAIN resp.body : resp.body[k][2] = dist(resp.body[k][1])
          /\ \A k \in DOMAIN resp.body, l \in DOMAIN resp.body :
                k < l => resp.body[k][2] <= resp.body[l][2]

(* a vendor whose only filled cylinder is assigned to an accepted order was
   left out, although it has a location in reach *)
W34_AssignedCylinderNotCounted ==
    /\ resp.op = "order_find_nearby_vendors"
    /\ resp.quantity = 1
    /\ \E v \in Vendors :
          /\ resp.user_locations[v] \in VendorSites
          /\ calculate_distance(resp.delivery_location, resp.user_locations[v])
                <= resp.max_distance
          /\ \A k \in DOMAIN resp.body : resp.body[k][1] # v
          /\ \E c \in DOMAIN cylinders, o \in DOMAIN orders :
                /\ cylinders[c].vendor_id = v
                /\ cylinders[c].status = FILLED
                /\ cylinders[c].is_assigned
                /\ cylinders[c].current_order_id = o
                /\ orders[o].status = ACCEPTED

(* a vendor is returned again after the order that held its cylinder was
   cancelled *)
W34_ReleasedCylinderCounted ==
    /\ resp.op = "order_find_nearby_vendors"
    /\ \E k \in DOMAIN resp.body, c \in DOMAIN cylinders, o \in DOMAIN orders :
          /\ cylinders[c].vendor_id = resp.body[k][1]
          /\ <<o, c>> \in orderCyl
          /\ orders[o].status = CANCELLED
          /\ ~cylinders[c].is_assigned

(* C35: the order's status is the status its log records: for every order
   that has log entries, the new_status of its last entry is the order's
   status, and the old_status of every entry but the first is the new_status
   of the entry before it. *)
C35_StatusFollowsLog ==
    \A o \in DOMAIN orders :
       LET l == LogsOf(o)
       IN l # <<>> =>
             /\ l[Len(l)].new_status = orders[o].status
             /\ \A i \in 2..Len(l) : l[i].old_status = l[i - 1].new_status

(* C36: every cylinder in an order's assignment set is owned by the order's
   vendor. *)
C36_AssignedCylindersOfVendor ==
    \A oc \in orderCyl :
       oc[2] \in DOMAIN cylinders =>
          cylinders[oc[2]].vendor_id = orders[oc[1]].vendor_id

(* C37: assignment references never dangle: every pair of the assignment
   set names an existing order and an existing cylinder, and every
   current_order_id that is set names an existing order, also after a delete
   request for a cylinder that is assigned to an active order. *)
C37_NoDanglingAssignment ==
    /\ \A oc \in orderCyl : oc[1] \in DOMAIN orders /\ oc[2] \in DOMAIN cylinders
    /\ \A c \in DOMAIN cylinders :
          cylinders[c].current_order_id # NoOrder
             => cylinders[c].current_order_id \in DOMAIN orders

(* a delete request has been made for a cylinder that is assigned to an
   accepted order; the order still holds the cylinder *)
W37_DeleteOfAssignedCylinder ==
    /\ resp.op = "delete_cylinder"
    /\ cylLogs # <<>>
    /\ LET e == cylLogs[Len(cylLogs)]
       IN /\ e.event_type = "deleted"
          /\ \E o \in DOMAIN orders :
                /\ orders[o].status = ACCEPTED
                /\ <<o, e.cylinder_id>> \in orderCyl
                /\ e.cylinder_id \in DOMAIN cylinders
                /\ cylinders[e.cylinder_id].current_order_id = o

(* C38: an accepted order has the cylinders it asked for: when accept_order
   has succeeded, the number of cylinders in the order's assignment set is
   the order's quantity. *)
C38_AcceptedWithQuantity ==
    resp = Resp("accept_order", HTTP_OK) =>
       LET o == orderLogs[Len(orderLogs)].order_id
       IN Cardinality({c \in CylIds : <<o, c>> \in orderCyl}) = orders[o].quantity

(* C39: delivery updates never touch cylinders: a step of the engine's or of
   the tracker's update_delivery_status leaves every cylinder row and the
   assignment set as they were, so every cylinder that was assigned is still
   assigned, is not found by the cylinder query of a later acceptance and is
   not among the cylinders find_nearby_vendors counts. *)
C39_DeliveryLeavesCylinders ==
    [][ resp'.op \in {"update_delivery_status", "tracker_update"} =>
        /\ DOMAIN cylinders' = DOMAIN cylinders
        /\ \A c \in DOMAIN cylinders :
              /\ cylinders'[c].status = cylinders[c].status
              /\ cylinders'[c].is_assigned = cylinders[c].is_assigned
              /\ cylinders'[c].current_order_id = cylinders[c].current_order_id
              /\ cylinders[c].is_assigned =>
                    /\ \A v \in Vendors : c \notin AvailableCylinders(cylinders', <<c>>, v)
                    /\ \A v \in Vendors :
                          Cardinality({d \in DOMAIN cylinders' :
                                          /\ cylinders'[d].vendor_id = v
                                          /\ cylinders'[d].status = FILLED
                                          /\ ~cylinders'[d].is_assigned})
                             = Cardinality({d \in DOMAIN cylinders' \ {c} :
                                          /\ cylinders'[d].vendor_id = v
                                          /\ cylinders'[d].status = FILLED
                                          /\ ~cylinders'[d].is_assigned})
        /\ orderCyl' = orderCyl ]_vars

(* an order has just been set to delivered and the cylinder it holds is
   still assigned to it *)
W39_DeliveredKeepsCylinder ==
    /\ resp = Resp("update_delivery_status", HTTP_OK)
    /\ LET o == orderLogs[Len(orderLogs)].order_id
       IN /\ orders[o].status = DELIVERED
          /\ \E c \in DOMAIN cylinders :
                /\ <<o, c>> \in orderCyl
                /\ cylinders[c].is_assigned
                /\ cylinders[c].current_order_id = o

====
